---- MODULE Spec2Model ----
(***************************************************************************)
(* Model of ensemble_caller.py: the sort-order validation (parse_order,    *)
(* compare_orders, are_sorted), the stream reset (reset_vcf_files) and the *)
(* walk-together generator (create_vcf_walktogether).                      *)
(*                                                                         *)
(* A string is a sequence of character codes, so that Python's string      *)
(* comparison and the regular expression of check_num are computed, not    *)
(* assumed.  A VCF record is [CHROM, POS, REF, ALT].                       *)
(***************************************************************************)
EXTENDS Integers, Sequences, FiniteSets, TLC

VARIABLES
    lists,      \* compare_orders: the argument `lists`
    verdict0,   \* compare_orders: verdict on the lists as first given
    verdict,    \* compare_orders: verdict on the lists as they are now
    omitted,    \* compare_orders: TRUE once an element was left out of a list
    files,      \* the VCF files behind vcf_files: [meta, data] each
    cursor,     \* per vcf.Reader: number of lines its line generator has consumed
    metadata,   \* per vcf.Reader: the metadata attribute
    metadata0,  \* per vcf.Reader: the metadata attribute as first parsed
    firstRead,  \* per vcf.Reader: what the first next() returned
    lastRead,   \* per vcf.Reader: what the latest next() returned
    lastOp,     \* per vcf.Reader: "open", "read", "reset" or "reset_read"
    parsed,     \* the latest parse_order call: its input and its outcome
    sorted,     \* the latest are_sorted call: its input and its outcome
    wreaders,   \* walk_together: the readers it was given, as indexes of files
    nexts,      \* walk_together: the buffered record of each reader, or None
    emitted,    \* walk_together: the tuples yielded so far
    wpc,        \* walk_together: "none", "created", "running" or "done"
    names,      \* the names: called tells whether extract_names ran, result
                \* holds what it returned, or args.names in main
    skip,       \* main: args.skip_sort_check
    argnames,   \* main: args.names, <<>> when the option is not given
    mpc,        \* main: the statement main has reached, or how it ended
    trace       \* main: the functions main has called so far, in order, and
                \* "next" once the for loop has pulled from the walker

orderVars == <<lists, verdict0, verdict, omitted>>

readerVars == <<files, cursor, metadata, metadata0, firstRead, lastRead, lastOp>>

walkVars == <<wreaders, nexts, emitted, wpc>>

mainVars == <<names, skip, argnames, mpc, trace>>

vars == <<orderVars, readerVars, parsed, sorted, walkVars, mainVars>>

(***************************************************************************)
(* Bounds                                                                  *)
(***************************************************************************)
MaxLists == 2
MaxOrderTotal == 4
MaxRecords == 3
MaxTotal == 4
WalkMaxTotal == 3
NumStreams == 2
MaxNames == 3
MaxPairTotal == 4

(***************************************************************************)
(* Characters and strings                                                  *)
(***************************************************************************)
Range(s) == {s[i] : i \in 1..Len(s)}

SeqsUpTo(S, n) == UNION {[1..k -> S] : k \in 0..n}

\* lens[1] + ... + lens[i]
RECURSIVE SumTo(_, _)
SumTo(lens, i) == IF i = 0 THEN 0 ELSE lens[i] + SumTo(lens, i - 1)

\* the sequence flat cut into consecutive pieces of the lengths lens
SplitBy(flat, lens) ==
    [i \in 1..Len(lens) |-> SubSeq(flat, SumTo(lens, i - 1) + 1, SumTo(lens, i))]

\* the lengths of n sequences that hold up to total elements between them
LengthsOf(n, total) == {lens \in [1..n -> 0..total] : SumTo(lens, n) <= total}

RemoveAt(s, j) == [k \in 1..(Len(s) - 1) |-> IF k < j THEN s[k] ELSE s[k + 1]]

\* character classes of the pattern ([A-Za-z._]+)(\d+)|([A-Za-z._]+)|(\d+)
IsDigit(c) == c \in 48..57

IsAlpha(c) == c \in (65..90) \cup (97..122) \cup {46, 95}

\* chromosome labels, as character codes
Chr_2 == <<50>>
Chr_02 == <<48, 50>>
Chr_10 == <<49, 48>>
Chr_X == <<88>>
Chr_c2 == <<99, 50>>
Chr_c10 == <<99, 49, 48>>

OrderLabels == {Chr_2, Chr_02, Chr_10, Chr_X, Chr_c2, Chr_c10}

\* a <= b for two Python 2 byte strings
RECURSIVE StrLe(_, _)
StrLe(a, b) ==
    IF a = <<>> THEN TRUE
    ELSE IF b = <<>> THEN FALSE
    ELSE IF a[1] # b[1] THEN a[1] < b[1]
    ELSE StrLe(Tail(a), Tail(b))

\* check_lexico(l): all(l[i] <= l[i+1] for i in range(len(l)-1))
check_lexico_first(l) == \A i \in 1..(Len(l) - 1) : StrLe(l[1], l[i + 1])

check_lexico(l) == \A i \in 1..(Len(l) - 1) : StrLe(l[i], l[i + 1])

\* end (exclusive) of the maximal run of characters of one class from i
RECURSIVE RunEnd(_, _, _)
RunEnd(s, i, digit) ==
    IF i > Len(s) THEN i
    ELSE IF (digit /\ IsDigit(s[i])) \/ (~digit /\ IsAlpha(s[i]))
         THEN RunEnd(s, i + 1, digit)
         ELSE i

\* int(x) of a run of digits
RECURSIVE IntOf(_)
IntOf(d) ==
    IF d = <<>> THEN 0
    ELSE 10 * IntOf(SubSeq(d, 1, Len(d) - 1)) + (d[Len(d)] - 48)

StrElem(s) == [isInt |-> FALSE, str |-> s, int |-> 0]

IntElem(d) == [isInt |-> TRUE, str |-> <<>>, int |-> IntOf(d)]

\* re.findall(pattern, s) from index i, each match with its empty groups
\* removed and its digit groups converted by int()
RECURSIVE FindAll(_, _)
FindAll(s, i) ==
    IF i > Len(s) THEN <<>>
    ELSE IF IsAlpha(s[i])
         THEN LET j == RunEnd(s, i, FALSE)
              IN  IF j <= Len(s) /\ IsDigit(s[j])
                  THEN LET k == RunEnd(s, j, TRUE)
                       IN  <<<<StrElem(SubSeq(s, i, j - 1)),
                               IntElem(SubSeq(s, j, k - 1))>>>>
                           \o FindAll(s, k)
                  ELSE <<<<StrElem(SubSeq(s, i, j - 1))>>>> \o FindAll(s, j)
    ELSE IF IsDigit(s[i])
         THEN LET k == RunEnd(s, i, TRUE)
              IN  <<<<IntElem(SubSeq(s, i, k - 1))>>>> \o FindAll(s, k)
    ELSE FindAll(s, i + 1)

\* Python 2 ordering of int and str objects: numbers before strings
ElemLe(x, y) ==
    IF x.isInt /\ y.isInt THEN x.int <= y.int
    ELSE IF x.isInt THEN TRUE
    ELSE IF y.isInt THEN FALSE
    ELSE StrLe(x.str, y.str)

\* list <= list over [x for x in match if x != ""]
RECURSIVE MatchLe(_, _)
MatchLe(a, b) ==
    IF a = <<>> THEN TRUE
    ELSE IF b = <<>> THEN FALSE
    ELSE IF a[1] # b[1] THEN ElemLe(a[1], b[1])
    ELSE MatchLe(Tail(a), Tail(b))

\* list <= list over l_split[i]
RECURSIVE SplitLe(_, _)
SplitLe(a, b) ==
    IF a = <<>> THEN TRUE
    ELSE IF b = <<>> THEN FALSE
    ELSE IF a[1] # b[1] THEN MatchLe(a[1], b[1])
    ELSE SplitLe(Tail(a), Tail(b))

\* check_num(l)
check_num(l) ==
    LET l_split == [i \in 1..Len(l) |-> FindAll(l[i], 1)]
    IN  \A i \in 1..(Len(l) - 1) : SplitLe(l_split[i], l_split[i + 1])

\* compare_orders(lists)
compare_orders_per_list(ls) ==
    \A n \in 1..Len(ls) : check_lexico(ls[n]) \/ check_num(ls[n])

compare_orders(ls) ==
    LET is_sorted_lexico == \A n \in 1..Len(ls) : check_lexico(ls[n])
        is_sorted_num == \A n \in 1..Len(ls) : check_num(ls[n])
    IN  is_sorted_lexico \/ is_sorted_num

PyBool(b) == IF b THEN "True" ELSE "False"

(***************************************************************************)
(* VCF files and vcf.Reader objects                                        *)
(***************************************************************************)
Chroms == {Chr_2, Chr_10}

Positions == {1, 2}

\* REF and ALT alleles, as character codes: "A", "C", "T"
Refs == {<<65>>}

Alts == {<<67>>, <<84>>}

RecordsOver(alts) == [CHROM : Chroms, POS : Positions, REF : Refs, ALT : alts]

\* the ##key=value lines of a file: without a source, with a source, with
\* an empty source
MetaLines ==
    {<<<<"fileformat", "VCFv4.1">>>>,
     <<<<"fileformat", "VCFv4.1">>, <<"source", "strelka">>>>,
     <<<<"fileformat", "VCFv4.1">>, <<"source", "mutationSeq_4.3.6">>>>,
     <<<<"fileformat", "VCFv4.1">>, <<"source", "">>>>}

VcfFiles(metas, alts, n) == [meta : metas, data : SeqsUpTo(RecordsOver(alts), n)]

PlainMeta == <<<<"fileformat", "VCFv4.1">>>>

\* the files with the data lines ds[1], ds[2], ...
PlainFiles(ds) == [i \in 1..Len(ds) |-> [meta |-> PlainMeta, data |-> ds[i]]]

\* number of lines before the first data line: the ## lines and the #CHROM line
HeaderLen(f) == Len(f.meta) + 1

SINGULAR_METADATA == {"fileformat", "fileDate", "reference"}

\* Reader._parse_metainfo: the metadata mapping read from the ## lines
RECURSIVE MetaFold(_, _, _)
MetaFold(meta, k, md) ==
    IF k > Len(meta) THEN md
    ELSE LET key == meta[k][1]
             val == meta[k][2]
             new == IF key \in SINGULAR_METADATA THEN val
                    ELSE IF key \in DOMAIN md THEN Append(md[key], val)
                    ELSE <<val>>
         IN  MetaFold(meta, k + 1,
                      [x \in DOMAIN md \cup {key} |-> IF x = key THEN new ELSE md[x]])

ParseMetainfo(f) == MetaFold(f.meta, 1, <<>>)

\* the data records a reader has still to yield
Remaining(f, c) == SubSeq(f.data, c - HeaderLen(f) + 1, Len(f.data))

\* Reader.next(): the record at the cursor, or StopIteration at the end
StopIteration == [CHROM |-> <<>>, POS |-> 0, REF |-> <<>>, ALT |-> <<1>>]

NotRead == [CHROM |-> <<>>, POS |-> 0, REF |-> <<>>, ALT |-> <<2>>]

None == [CHROM |-> <<>>, POS |-> 0, REF |-> <<>>, ALT |-> <<0>>]

ReaderNext(f, c) ==
    IF c - HeaderLen(f) + 1 <= Len(f.data)
    THEN [record |-> f.data[c - HeaderLen(f) + 1], cursor |-> c + 1]
    ELSE [record |-> StopIteration, cursor |-> c]

(***************************************************************************)
(* reset_vcf_files, parse_order, are_sorted                                *)
(***************************************************************************)
\* one iteration of reset_vcf_files: seek(0), a new line generator, and
\* _parse_metainfo reading up to and including the #CHROM line
reset_one_no_seek(f, c) == [cursor |-> c, metadata |-> ParseMetainfo(f)]

reset_one(f, c) == [cursor |-> HeaderLen(f), metadata |-> ParseMetainfo(f)]

\* the body of the loop of parse_order on record recs[k]
\* st = [chroms_seen, prev_set, chrom_prev, pos_prev, raised, consumed]
parse_step_strict(st, record) ==
    LET chrom == record.CHROM
        pos == record.POS
    IN  IF ~st.prev_set \/ chrom # st.chrom_prev
        THEN IF chrom \in Range(st.chroms_seen)
             THEN [st EXCEPT !.raised = TRUE, !.consumed = @ + 1]
             ELSE [st EXCEPT !.chroms_seen = Append(@, chrom),
                             !.prev_set = TRUE,
                             !.chrom_prev = chrom,
                             !.pos_prev = 0,
                             !.consumed = @ + 1]
        ELSE IF pos <= st.pos_prev
             THEN [st EXCEPT !.raised = TRUE, !.consumed = @ + 1]
             ELSE [st EXCEPT !.pos_prev = pos, !.consumed = @ + 1]

parse_step(st, record) ==
    LET chrom == record.CHROM
        pos == record.POS
    IN  IF ~st.prev_set \/ chrom # st.chrom_prev
        THEN IF chrom \in Range(st.chroms_seen)
             THEN [st EXCEPT !.raised = TRUE, !.consumed = @ + 1]
             ELSE [st EXCEPT !.chroms_seen = Append(@, chrom),
                             !.prev_set = TRUE,
                             !.chrom_prev = chrom,
                             !.pos_prev = 0,
                             !.consumed = @ + 1]
        ELSE IF pos < st.pos_prev
             THEN [st EXCEPT !.raised = TRUE, !.consumed = @ + 1]
             ELSE [st EXCEPT !.pos_prev = pos, !.consumed = @ + 1]

RECURSIVE parse_loop(_, _)
parse_loop(st, recs) ==
    IF recs = <<>> \/ st.raised THEN st
    ELSE parse_loop(parse_step(st, recs[1]), Tail(recs))

\* parse_order(vcf_file) on the records the reader has still to yield:
\* raised = NotSortedException, else chroms_seen.keys() is returned;
\* consumed = the number of records read from the reader
parse_order(recs) ==
    parse_loop([chroms_seen |-> <<>>, prev_set |-> FALSE, chrom_prev |-> <<>>,
                pos_prev |-> 0, raised |-> FALSE, consumed |-> 0], recs)

\* are_sorted(vcf_files) from reader i on with the chrom_lists so far; the
\* first NotSortedException leaves the later readers unread
RECURSIVE sorted_loop(_, _, _, _)
sorted_loop(fs, cs, i, chrom_lists) ==
    IF i > Len(fs)
    THEN [raised |-> FALSE, result |-> PyBool(compare_orders(chrom_lists)),
          cursor |-> cs]
    ELSE LET po == parse_order(Remaining(fs[i], cs[i]))
             cs2 == [cs EXCEPT ![i] = @ + po.consumed]
         IN  IF po.raised
             THEN [raised |-> TRUE, result |-> "NotSortedException", cursor |-> cs2]
             ELSE sorted_loop(fs, cs2, i + 1, Append(chrom_lists, po.chroms_seen))

are_sorted(fs, cs) == sorted_loop(fs, cs, 1, <<>>)

(***************************************************************************)
(* extract_names                                                           *)
(***************************************************************************)
\* "method_{}".format(str(i))
method_name(i) == "method_" \o ToString(i)

\* the name of the i-th reader: vcf.metadata["source"][0], "" on a KeyError,
\* and the generic name when it is ""
extract_name(md, i) ==
    LET name == IF "source" \in DOMAIN md THEN md["source"][1] ELSE ""
    IN  IF name = "" THEN method_name(i) ELSE name

\* the number of readers among the first i whose metadata has no usable source
RECURSIVE Unnamed(_, _)
Unnamed(mds, i) ==
    IF i = 0 THEN 0
    ELSE Unnamed(mds, i - 1)
         + (IF "source" \in DOMAIN mds[i] /\ mds[i]["source"][1] # "" THEN 0 ELSE 1)

\* extract_names(vcf_files), over the metadata of the readers
extract_names_by_count(mds) ==
    [i \in 1..Len(mds) |-> extract_name(mds[i], Unnamed(mds, i))]

extract_names(mds) == [i \in 1..Len(mds) |-> extract_name(mds[i], i)]

(***************************************************************************)
(* Actions on readers                                                      *)
(***************************************************************************)
NoCall == [called |-> FALSE]

InitReaders(fs) ==
    /\ files = fs
    /\ cursor = [i \in 1..Len(fs) |-> HeaderLen(fs[i])]
    /\ metadata = [i \in 1..Len(fs) |-> ParseMetainfo(fs[i])]
    /\ metadata0 = metadata
    /\ firstRead = [i \in 1..Len(fs) |-> NotRead]
    /\ lastRead = [i \in 1..Len(fs) |-> NotRead]
    /\ lastOp = [i \in 1..Len(fs) |-> "open"]
    /\ parsed = NoCall
    /\ sorted = NoCall
    /\ wreaders = <<>>
    /\ nexts = <<>>
    /\ emitted = <<>>
    /\ wpc = "none"
    /\ names = NoCall

\* main is not running
IdleMain ==
    /\ skip = FALSE
    /\ argnames = <<>>
    /\ mpc = "none"
    /\ trace = <<>>

IdleOrders ==
    /\ lists = <<>>
    /\ verdict0 = "none"
    /\ verdict = "none"
    /\ omitted = FALSE

\* record = next(vcf_file)
Read(i) ==
    LET r == ReaderNext(files[i], cursor[i])
    IN  /\ cursor' = [cursor EXCEPT ![i] = r.cursor]
        /\ lastRead' = [lastRead EXCEPT ![i] = r.record]
        /\ firstRead' = IF lastOp[i] = "open"
                        THEN [firstRead EXCEPT ![i] = r.record]
                        ELSE firstRead
        /\ lastOp' = [lastOp EXCEPT ![i] = IF @ = "reset" THEN "reset_read" ELSE "read"]
        /\ UNCHANGED <<files, metadata, metadata0, parsed, sorted, orderVars, walkVars, mainVars>>

\* reset_vcf_files(vcf_files)
ResetVcfFiles ==
    LET r == [i \in 1..Len(files) |-> reset_one(files[i], cursor[i])]
    IN  /\ cursor' = [i \in 1..Len(files) |-> r[i].cursor]
        /\ metadata' = [i \in 1..Len(files) |-> r[i].metadata]
        /\ lastOp' = [i \in 1..Len(files) |-> "reset"]
        /\ UNCHANGED <<files, metadata0, firstRead, lastRead, parsed, sorted, orderVars, walkVars, mainVars>>

\* parse_order(vcf_file) on reader i
ParseOrder(i) ==
    LET recs == Remaining(files[i], cursor[i])
        po == parse_order(recs)
    IN  /\ parsed' = [called |-> TRUE, input |-> recs, raised |-> po.raised,
                      chroms |-> po.chroms_seen]
        /\ cursor' = [cursor EXCEPT ![i] = @ + po.consumed]
        /\ lastOp' = [lastOp EXCEPT ![i] = "read"]
        /\ UNCHANGED <<files, metadata, metadata0, firstRead, lastRead, sorted, orderVars, walkVars, mainVars>>

\* are_sorted(vcf_files)
AreSorted ==
    LET r == are_sorted(files, cursor)
    IN  /\ sorted' = [called |-> TRUE,
                      input |-> [i \in 1..Len(files) |-> Remaining(files[i], cursor[i])],
                      result |-> r.result]
        /\ cursor' = r.cursor
        /\ lastOp' = [i \in 1..Len(files) |-> "read"]
        /\ UNCHANGED <<files, metadata, metadata0, firstRead, lastRead, parsed, orderVars, walkVars, mainVars>>

\* names = extract_names(vcf_files)
ExtractNames ==
    /\ names' = [called |-> TRUE, result |-> extract_names(metadata)]
    /\ UNCHANGED <<readerVars, parsed, sorted, orderVars, walkVars,
                   skip, argnames, mpc, trace>>

(***************************************************************************)
(* create_vcf_walktogether and the walk-together generator                 *)
(*                                                                         *)
(* create_vcf_walktogether supplies the readers and the sort key; the loop *)
(* of the generator is vcf.utils.walk_together of the PyVCF dependency,    *)
(* which is not part of ensemble_caller.py.  The loop is modelled from     *)
(* section 4.4 of the design: buffer one record per stream, yield the      *)
(* records with the minimum key, re-buffer the streams just consumed.      *)
(***************************************************************************)
\* vcf_record_sort_key(r)
vcf_record_sort_key_pos(r) == <<r.CHROM, r.POS, <<>>, <<>>>>

vcf_record_sort_key(r) == <<r.CHROM, r.POS, r.REF, r.ALT>>

\* a <= b for two keys: Python's comparison of tuples, field by field, the
\* strings as strings and the position as an integer
KeyLe(a, b) ==
    IF a[1] # b[1] THEN StrLe(a[1], b[1])
    ELSE IF a[2] # b[2] THEN a[2] < b[2]
    ELSE IF a[3] # b[3] THEN StrLe(a[3], b[3])
    ELSE StrLe(a[4], b[4])

\* the readers create_vcf_walktogether hands to walk_together: *vcf_files
walk_readers_tail(fs) == [s \in 1..(Len(fs) - 1) |-> s + 1]

walk_readers_first(fs) == [s \in 1..1 |-> s]

walk_readers(fs) == [s \in 1..Len(fs) |-> s]

\* the slots whose buffered record went into the latest tuple
Consumed_all(tuple) == 1..Len(tuple)

Consumed(tuple) == {s \in 1..Len(tuple) : tuple[s] # None}

\* one step of the walker: buffer a record for every reader in toRead, then
\* yield the tuple of the buffered records with the minimum key, or stop
\* when every reader is exhausted
WalkStep(toRead) ==
    LET reads == [s \in 1..Len(wreaders) |->
                    IF s \in toRead
                    THEN ReaderNext(files[wreaders[s]], cursor[wreaders[s]])
                    ELSE [record |-> nexts[s], cursor |-> cursor[wreaders[s]]]]
        nx == [s \in 1..Len(wreaders) |->
                    IF reads[s].record = StopIteration THEN None ELSE reads[s].record]
        keys == {vcf_record_sort_key(nx[s]) : s \in {t \in 1..Len(wreaders) : nx[t] # None}}
        min_k == CHOOSE m \in keys : \A k \in keys : KeyLe(m, k)
    IN  /\ nexts' = nx
        /\ cursor' = [i \in 1..Len(files) |->
                        IF \E s \in 1..Len(wreaders) : wreaders[s] = i
                        THEN reads[CHOOSE s \in 1..Len(wreaders) : wreaders[s] = i].cursor
                        ELSE cursor[i]]
        /\ lastOp' = [i \in 1..Len(files) |->
                        IF \E s \in toRead : wreaders[s] = i THEN "read" ELSE lastOp[i]]
        /\ IF keys = {}
           THEN /\ wpc' = "done"
                /\ emitted' = emitted
           ELSE /\ wpc' = "running"
                /\ emitted' = Append(emitted,
                        [s \in 1..Len(wreaders) |->
                            IF nx[s] # None /\ vcf_record_sort_key(nx[s]) = min_k
                            THEN nx[s] ELSE None])

\* vcf_wt = create_vcf_walktogether(vcf_files): nothing is read yet
CreateVcfWalktogether ==
    /\ wpc = "none"
    /\ wreaders' = walk_readers(files)
    /\ nexts' = [s \in 1..Len(wreaders') |-> None]
    /\ emitted' = <<>>
    /\ wpc' = "created"
    /\ UNCHANGED <<readerVars, parsed, sorted, orderVars, mainVars>>

\* next(vcf_wt), the first time
PullFirst ==
    /\ wpc = "created"
    /\ WalkStep(1..Len(wreaders))
    /\ UNCHANGED <<files, metadata, metadata0, firstRead, lastRead, wreaders,
                   parsed, sorted, orderVars, mainVars>>

\* next(vcf_wt), after a tuple was yielded
PullNext ==
    /\ wpc = "running"
    /\ WalkStep(Consumed(emitted[Len(emitted)]))
    /\ UNCHANGED <<files, metadata, metadata0, firstRead, lastRead, wreaders,
                   parsed, sorted, orderVars, mainVars>>

(***************************************************************************)
(* main                                                                    *)
(***************************************************************************)
\* the arguments walk_together receives when create_vcf_walktogether is
\* given one reader in place of a list of readers: *vcf_files iterates the
\* reader, so every record it has still to yield becomes an argument; 0
\* stands for an argument that is a record and not a reader
walk_records(f, c) == [k \in 1..Len(Remaining(f, c)) |-> 0]

\* are_sorted(args.vcf_files), unless the sort check is skipped
MainAreSorted ==
    /\ mpc = "start"
    /\ ~skip
    /\ LET r == are_sorted(files, cursor)
       IN  /\ sorted' = [called |-> TRUE,
                         input |-> [i \in 1..Len(files) |->
                                       Remaining(files[i], cursor[i])],
                         result |-> r.result]
           /\ cursor' = r.cursor
           /\ mpc' = IF r.raised THEN "NotSortedException" ELSE "are_sorted"
    /\ lastOp' = [i \in 1..Len(files) |-> "read"]
    /\ trace' = Append(trace, "are_sorted")
    /\ UNCHANGED <<files, metadata, metadata0, firstRead, lastRead, parsed,
                   orderVars, walkVars, names, skip, argnames>>

\* reset_vcf_files(args.vcf_files)
MainResetVcfFiles ==
    /\ mpc = "are_sorted"
    /\ LET r == [i \in 1..Len(files) |-> reset_one(files[i], cursor[i])]
       IN  /\ cursor' = [i \in 1..Len(files) |-> r[i].cursor]
           /\ metadata' = [i \in 1..Len(files) |-> r[i].metadata]
    /\ lastOp' = [i \in 1..Len(files) |-> "reset"]
    /\ mpc' = "reset_vcf_files"
    /\ trace' = Append(trace, "reset_vcf_files")
    /\ UNCHANGED <<files, metadata0, firstRead, lastRead, parsed, sorted,
                   orderVars, walkVars, names, skip, argnames>>

\* vcf_wt = create_vcf_walktogether(*args.vcf_files): each reader is one
\* positional argument of a function that takes one; any number of readers
\* but one is a TypeError, and one reader is taken for the list of readers
MainCreateVcfWalktogether ==
    /\ mpc = "reset_vcf_files" \/ (mpc = "start" /\ skip)
    /\ trace' = Append(trace, "create_vcf_walktogether")
    /\ IF Len(files) # 1
       THEN /\ mpc' = "TypeError"
            /\ UNCHANGED <<cursor, lastOp, walkVars>>
       ELSE /\ wreaders' = walk_records(files[1], cursor[1])
            /\ cursor' = [cursor EXCEPT ![1] = @ + Len(Remaining(files[1], @))]
            /\ lastOp' = [lastOp EXCEPT ![1] = "read"]
            /\ nexts' = [s \in 1..Len(wreaders') |-> None]
            /\ emitted' = <<>>
            /\ wpc' = "created"
            /\ mpc' = "create_vcf_walktogether"
    /\ UNCHANGED <<files, metadata, metadata0, firstRead, lastRead, parsed, sorted,
                   orderVars, names, skip, argnames>>

\* names = args.names or extract_names(args.vcf_files): extract_names is
\* called only when args.names is not given
MainExtractNames ==
    /\ mpc = "create_vcf_walktogether"
    /\ IF argnames # <<>>
       THEN /\ names' = [called |-> FALSE, result |-> argnames]
            /\ trace' = trace
       ELSE /\ names' = [called |-> TRUE, result |-> extract_names(metadata)]
            /\ trace' = Append(trace, "extract_names")
    /\ mpc' = "names"
    /\ UNCHANGED <<readerVars, parsed, sorted, orderVars, walkVars, skip, argnames>>

\* for record in vcf_wt: one pull; the walker fails on an argument that is
\* not a reader
MainPull ==
    /\ mpc = "names"
    /\ IF \E s \in 1..Len(wreaders) : wreaders[s] = 0
       THEN /\ mpc' = "NotAReader"
            /\ UNCHANGED <<cursor, lastOp, nexts, emitted, wpc>>
       ELSE /\ WalkStep(IF wpc = "created" THEN 1..Len(wreaders)
                        ELSE Consumed(emitted[Len(emitted)]))
            /\ mpc' = IF wpc' = "done" THEN "exit" ELSE "names"
    /\ trace' = IF trace[Len(trace)] = "next" THEN trace ELSE Append(trace, "next")
    /\ UNCHANGED <<files, metadata, metadata0, firstRead, lastRead, wreaders,
                   parsed, sorted, orderVars, names, skip, argnames>>

(***************************************************************************)
(* Specification of the order consistency checker on its own: the lists    *)
(* hold up to MaxOrderTotal labels between them, compare_orders is applied, *)
(* and elements are left out of the lists between applications.            *)
(***************************************************************************)
InitOrders ==
    /\ \E n \in 0..MaxLists : \E lens \in LengthsOf(n, MaxOrderTotal) :
          \E flat \in [1..SumTo(lens, n) -> OrderLabels] : lists = SplitBy(flat, lens)
    /\ verdict0 = "none"
    /\ verdict = "none"
    /\ omitted = FALSE
    /\ InitReaders(<<>>)
    /\ IdleMain

CompareOrders ==
    /\ verdict = "none"
    /\ verdict' = PyBool(compare_orders(lists))
    /\ verdict0' = IF verdict0 = "none" THEN verdict' ELSE verdict0
    /\ UNCHANGED <<lists, omitted, readerVars, parsed, sorted, walkVars, mainVars>>

OmitElement ==
    /\ verdict # "none"
    /\ \E n \in 1..Len(lists) : \E j \in 1..Len(lists[n]) :
          lists' = [lists EXCEPT ![n] = RemoveAt(lists[n], j)]
    /\ verdict' = "none"
    /\ omitted' = TRUE
    /\ UNCHANGED <<verdict0, readerVars, parsed, sorted, walkVars, mainVars>>

NextOrders == CompareOrders \/ OmitElement

SpecOrders == InitOrders /\ [][NextOrders]_vars

(***************************************************************************)
(* Specification of one reader: a file is drawn from the bounded files,    *)
(* opened, and then read, reset and parsed in any order.                   *)
(***************************************************************************)
InitReader ==
    /\ IdleOrders
    /\ IdleMain
    /\ \E f \in VcfFiles(MetaLines, {<<67>>}, MaxRecords) : InitReaders(<<f>>)

NextReader == Read(1) \/ ResetVcfFiles \/ ParseOrder(1)

SpecReader == InitReader /\ [][NextReader]_vars

(***************************************************************************)
(* Specification of the sort check: NumStreams files holding up to         *)
(* MaxTotal records between them are opened, and then checked by           *)
(* are_sorted and reset.                                                   *)
(***************************************************************************)
InitSorted ==
    /\ IdleOrders
    /\ IdleMain
    /\ \E lens \in LengthsOf(NumStreams, MaxTotal) :
          \E flat \in [1..SumTo(lens, NumStreams) -> RecordsOver({<<67>>})] :
              InitReaders(PlainFiles(SplitBy(flat, lens)))

NextSorted == AreSorted \/ ResetVcfFiles

SpecSorted == InitSorted /\ [][NextSorted]_vars

(***************************************************************************)
(* Specification of the walk: NumStreams files holding up to WalkMaxTotal  *)
(* records between them, sorted or not, are opened and walked together to  *)
(* exhaustion.                                                             *)
(***************************************************************************)
InitWalk ==
    /\ IdleOrders
    /\ IdleMain
    /\ \E lens \in LengthsOf(NumStreams, WalkMaxTotal) :
          \E flat \in [1..SumTo(lens, NumStreams) -> RecordsOver(Alts)] :
              InitReaders(PlainFiles(SplitBy(flat, lens)))

NextWalk == CreateVcfWalktogether \/ PullFirst \/ PullNext

SpecWalk == InitWalk /\ [][NextWalk]_vars

\* the walk of two files holding up to MaxPairTotal records between them;
\* the second alternate allele occurs at the first position only
PairRecords == {r \in RecordsOver(Alts) : r.POS = 1 \/ r.ALT = <<67>>}

InitWalkPair ==
    /\ IdleOrders
    /\ IdleMain
    /\ \E lens \in LengthsOf(2, MaxPairTotal) :
          \E flat \in [1..SumTo(lens, 2) -> PairRecords] :
              InitReaders(PlainFiles(SplitBy(flat, lens)))

SpecWalkPair == InitWalkPair /\ [][NextWalk]_vars

\* the same walk with a caller that keeps pulling (for record in vcf_wt),
\* over files whose records all carry one alternate allele
InitWalkFair ==
    /\ IdleOrders
    /\ IdleMain
    /\ \E lens \in LengthsOf(NumStreams, WalkMaxTotal) :
          \E flat \in [1..SumTo(lens, NumStreams) -> RecordsOver({<<67>>})] :
              InitReaders(PlainFiles(SplitBy(flat, lens)))

SpecWalkFair == InitWalkFair /\ [][NextWalk]_vars /\ WF_vars(NextWalk)

(***************************************************************************)
(* Specification of the names: up to MaxNames files without records, each  *)
(* with or without a source line, are opened; the names are extracted, and *)
(* the readers are reset.                                                  *)
(***************************************************************************)
InitNames ==
    /\ IdleOrders
    /\ IdleMain
    /\ \E n \in 0..MaxNames : \E ms \in [1..n -> MetaLines] :
          InitReaders([i \in 1..n |-> [meta |-> ms[i], data |-> <<>>]])

NextNames == ExtractNames \/ ResetVcfFiles

SpecNames == InitNames /\ [][NextNames]_vars

(***************************************************************************)
(* Specification of main: parse_args has opened one to NumStreams files    *)
(* holding up to WalkMaxTotal records between them, with or without the    *)
(* options --skip_sort_check and --names, and main runs to its end.        *)
(***************************************************************************)
InitMain ==
    /\ IdleOrders
    /\ \E n \in 1..NumStreams : \E lens \in LengthsOf(n, WalkMaxTotal) :
          \E flat \in [1..SumTo(lens, n) -> RecordsOver({<<67>>})] :
              InitReaders(PlainFiles(SplitBy(flat, lens)))
    /\ skip \in BOOLEAN
    /\ argnames \in {<<>>, [i \in 1..Len(files) |-> "given"]}
    /\ mpc = "start"
    /\ trace = <<>>

NextMain ==
    \/ MainAreSorted
    \/ MainResetVcfFiles
    \/ MainCreateVcfWalktogether
    \/ MainExtractNames
    \/ MainPull

SpecMain == InitMain /\ [][NextMain]_vars

(***************************************************************************)
(* Properties of compare_orders                                            *)
(***************************************************************************)
\* the alternating alphabetic and numeric runs of a label, numeric runs as
\* integers
RECURSIVE Runs(_, _)
Runs(s, i) ==
    IF i > Len(s) THEN <<>>
    ELSE IF IsDigit(s[i])
         THEN LET k == RunEnd(s, i, TRUE)
              IN  <<IntElem(SubSeq(s, i, k - 1))>> \o Runs(s, k)
    ELSE IF IsAlpha(s[i])
         THEN LET j == RunEnd(s, i, FALSE)
              IN  <<StrElem(SubSeq(s, i, j - 1))>> \o Runs(s, j)
    ELSE Runs(s, i + 1)

NaturalLe(a, b) == MatchLe(Runs(a, 1), Runs(b, 1))

LexNonDecreasing(l) == \A i, j \in 1..Len(l) : i < j => StrLe(l[i], l[j])

NumNonDecreasing(l) == \A i, j \in 1..Len(l) : i < j => NaturalLe(l[i], l[j])

AllLex(ls) == \A n \in 1..Len(ls) : LexNonDecreasing(ls[n])

AllNum(ls) == \A n \in 1..Len(ls) : NumNonDecreasing(ls[n])

\* one sequence is valid only lexicographically and another only numerically
MixedSchemes(ls) ==
    \E m, n \in 1..Len(ls) :
        /\ LexNonDecreasing(ls[m]) /\ ~NumNonDecreasing(ls[m])
        /\ NumNonDecreasing(ls[n]) /\ ~LexNonDecreasing(ls[n])

DupFree(l) == \A i, j \in 1..Len(l) : l[i] = l[j] => i = j

\* label a occurs before label b in l
Before(l, a, b) == \E i, j \in 1..Len(l) : i < j /\ l[i] = a /\ l[j] = b

\* C5: compare_orders returns True exactly when every sequence is
\* non-decreasing lexicographically or every sequence is non-decreasing under
\* the numeric-aware comparison; one sequence valid only lexicographically
\* with another valid only numerically is rejected.
C5_EitherScheme ==
    verdict # "none" =>
        /\ verdict = PyBool(AllLex(lists) \/ AllNum(lists))
        /\ MixedSchemes(lists) => verdict = "False"

C5_Witness == verdict = "False" /\ MixedSchemes(lists) /\ ~omitted

\* C6: compare_orders is reflexive: for every duplicate-free sequence L, in
\* any label order, compare_orders([L, L]) and compare_orders([L]) are True.
C6_Reflexive ==
    (/\ verdict # "none"
     /\ Len(lists) \in {1, 2}
     /\ \A n \in 1..Len(lists) : lists[n] = lists[1]
     /\ DupFree(lists[1]))
        => verdict = "True"

\* C7: a True verdict of compare_orders stays True after any elements are
\* deleted from any of the sequences.
C7_ToleratesOmission ==
    (verdict0 = "True" /\ verdict # "none") => verdict = "True"

C7_Witness ==
    /\ verdict0 = "True" /\ omitted /\ verdict = "True"
    /\ \E n \in 1..Len(lists) : Len(lists[n]) >= 2
    /\ \E n \in 1..Len(lists) : lists[n] = <<>>

\* C8: two sequences that contain the same two distinct labels in opposite
\* relative order make compare_orders return False.
C8_RejectsPermutation ==
    (/\ verdict # "none"
     /\ \E m, n \in 1..Len(lists) : \E a, b \in OrderLabels :
           a # b /\ m # n /\ Before(lists[m], a, b) /\ Before(lists[n], b, a))
        => verdict = "False"

(***************************************************************************)
(* Properties of parse_order, are_sorted and reset_vcf_files               *)
(***************************************************************************)
\* a chromosome label reappears after a different chromosome has been read
RunViolation(recs) ==
    \E i, j, k \in 1..Len(recs) :
        /\ i < j /\ j < k
        /\ recs[i].CHROM = recs[k].CHROM
        /\ recs[j].CHROM # recs[i].CHROM

\* a record has a lower position than the record immediately before it in
\* the same chromosome run
PosViolation(recs) ==
    \E i \in 1..(Len(recs) - 1) :
        recs[i].CHROM = recs[i + 1].CHROM /\ recs[i + 1].POS < recs[i].POS

\* the chromosome labels of recs in first-seen order, each once
RECURSIVE FirstSeen(_)
FirstSeen(recs) ==
    IF recs = <<>> THEN <<>>
    ELSE LET front == SubSeq(recs, 1, Len(recs) - 1)
             last == recs[Len(recs)].CHROM
         IN  IF \E i \in 1..Len(front) : front[i].CHROM = last
             THEN FirstSeen(front)
             ELSE Append(FirstSeen(front), last)

\* C3: parse_order fails with NotSortedException on every stream in which a
\* chromosome label reappears after a different chromosome, or in which a
\* record has a lower position than the record before it in the same run.
C3_DisorderRaises ==
    (parsed.called /\ (RunViolation(parsed.input) \/ PosViolation(parsed.input)))
        => parsed.raised

\* C4: on every stream with non-decreasing positions within each chromosome
\* run and no label in more than one run, parse_order raises nothing and
\* returns the labels in first-seen order, each exactly once.
C4_OrderedStreamGivesFirstSeen ==
    (parsed.called /\ ~RunViolation(parsed.input) /\ ~PosViolation(parsed.input))
        => /\ ~parsed.raised
           /\ parsed.chroms = FirstSeen(parsed.input)
           /\ DupFree(parsed.chroms)

C4_Witness ==
    /\ parsed.called
    /\ ~RunViolation(parsed.input) /\ ~PosViolation(parsed.input)
    /\ Len(parsed.input) = MaxRecords
    /\ parsed.input[1].POS = parsed.input[2].POS
    /\ parsed.chroms = <<Chr_2, Chr_10>>

\* C9: are_sorted raises NotSortedException when some stream has an
\* intra-stream violation, returns False when every stream is internally
\* ordered but the chromosome orders are not jointly consistent, and returns
\* True otherwise.
C9_SeparatesFailureKinds ==
    sorted.called =>
        LET intra == \E i \in 1..Len(sorted.input) :
                        RunViolation(sorted.input[i]) \/ PosViolation(sorted.input[i])
            orders == [i \in 1..Len(sorted.input) |-> FirstSeen(sorted.input[i])]
        IN  sorted.result =
                IF intra THEN "NotSortedException"
                ELSE IF ~(AllLex(orders) \/ AllNum(orders)) THEN "False"
                ELSE "True"

\* C10: after any number of reads, reset_vcf_files followed by one read
\* returns the first data record of the stream, the same as the original
\* first read, and the reset leaves the parsed metadata as it was.
FirstDataRecord(f) == IF f.data = <<>> THEN StopIteration ELSE f.data[1]

C10_ResetThenReadGivesFirst ==
    \A i \in 1..Len(files) :
        /\ lastOp[i] \in {"reset", "reset_read"} => metadata[i] = metadata0[i]
        /\ lastOp[i] = "reset_read" =>
              /\ lastRead[i] = FirstDataRecord(files[i])
              /\ firstRead[i] # NotRead => lastRead[i] = firstRead[i]

C10_Witness ==
    /\ Len(files) = 1
    /\ lastOp[1] = "reset_read"
    /\ firstRead[1] # NotRead
    /\ Len(files[1].data) >= 2
    /\ lastRead[1] = files[1].data[1]
    /\ files[1].data[2] # files[1].data[1]
    /\ "source" \in DOMAIN metadata[1]

(***************************************************************************)
(* Properties of the walk                                                  *)
(***************************************************************************)
\* the populated slots of column i of the tuples, in emission order
RECURSIVE Column(_, _)
Column(tuples, i) ==
    IF tuples = <<>> THEN <<>>
    ELSE LET front == Column(SubSeq(tuples, 1, Len(tuples) - 1), i)
             t == tuples[Len(tuples)]
         IN  IF i \in 1..Len(t) /\ t[i] # None THEN Append(front, t[i]) ELSE front

\* the key of a tuple: the key of its populated slots
TupleKey(t) == vcf_record_sort_key(t[CHOOSE s \in 1..Len(t) : t[s] # None])

\* the distinct alignment keys occurring in any stream
AllKeys(fs) ==
    UNION {{vcf_record_sort_key(fs[i].data[k]) : k \in 1..Len(fs[i].data)} :
              i \in 1..Len(fs)}

\* parse_order succeeds on every stream and compare_orders accepts the orders
Validated(fs) ==
    are_sorted(fs, [i \in 1..Len(fs) |-> HeaderLen(fs[i])]).result = "True"


\* C1: once the walker is exhausted, the populated slots of column i, in
\* emission order, are exactly stream i in its original order: every record
\* is emitted once, in slot i, none skipped and none twice.
C1_EveryRecordOnce ==
    wpc = "done" =>
        \A i \in 1..Len(files) : Column(emitted, i) = files[i].data

\* the keys of a stream ascend strictly within each chromosome run
KeyOrdered(recs) ==
    \A i \in 1..(Len(recs) - 1) :
        recs[i].CHROM = recs[i + 1].CHROM =>
            /\ vcf_record_sort_key(recs[i]) # vcf_record_sort_key(recs[i + 1])
            /\ KeyLe(vcf_record_sort_key(recs[i]), vcf_record_sort_key(recs[i + 1]))

\* C2: for streams that pass validation the walker emits exactly one tuple
\* per distinct alignment key: as many tuples as distinct keys, and equal
\* keys never in different tuples.  Stated here for the validated streams
\* that also hold their records in strict key order within each chromosome
\* run, whatever the order of the tuples.
C2_OneTuplePerKey ==
    (/\ wpc = "done"
     /\ Validated(files)
     /\ \A i \in 1..Len(files) : KeyOrdered(files[i].data)) =>
        /\ Len(emitted) = Cardinality(AllKeys(files))
        /\ \A m, n \in 1..Len(emitted) :
              TupleKey(emitted[m]) = TupleKey(emitted[n]) => m = n

C1_Witness ==
    /\ wpc = "done"
    /\ \A i \in 1..Len(files) : files[i].data # <<>>
    /\ Len(emitted) >= 2
    /\ \E n \in 1..Len(emitted) : Consumed(emitted[n]) = 1..Len(files)
    /\ \E n \in 1..Len(emitted) : Consumed(emitted[n]) # 1..Len(files)

\* a <= b for two keys under the numeric-aware scheme of check_num: the
\* chromosome by its alphabetic and numeric runs, then the position and the
\* alleles
NumKeyLe(a, b) ==
    IF a[1] # b[1] THEN NaturalLe(a[1], b[1])
    ELSE IF a[2] # b[2] THEN a[2] < b[2]
    ELSE IF a[3] # b[3] THEN StrLe(a[3], b[3])
    ELSE StrLe(a[4], b[4])

\* the chromosome orders of the streams, as parse_order returns them
ChromOrders(fs) == [i \in 1..Len(fs) |-> parse_order(fs[i].data).chroms_seen]

\* compare_orders accepts the orders under the numeric-aware scheme only
OnlyNumeric(ls) ==
    /\ \A n \in 1..Len(ls) : check_num(ls[n])
    /\ ~(\A n \in 1..Len(ls) : check_lexico(ls[n]))

\* the keys of the records buffered by the walker
BufferedKeys ==
    {vcf_record_sort_key(nexts[s]) : s \in {t \in 1..Len(nexts) : nexts[t] # None}}

\* C12: for streams that compare_orders accepts under the numeric-aware
\* scheme only (and that hold strictly ascending keys within each
\* chromosome), every tuple the walker emits carries the minimum buffered key
\* under the numeric-aware order, equal keys of different streams are in one
\* tuple, and the chromosomes are emitted in the streams' own order.
C12_WalksInValidatedOrder ==
    (/\ Validated(files)
     /\ OnlyNumeric(ChromOrders(files))
     /\ \A i \in 1..Len(files) : KeyOrdered(files[i].data)) =>
        /\ wpc = "running" =>
              \A k \in BufferedKeys : NumKeyLe(TupleKey(emitted[Len(emitted)]), k)
        /\ \A m, n \in 1..Len(emitted) :
              /\ TupleKey(emitted[m]) = TupleKey(emitted[n]) => m = n
              /\ m < n =>
                    \A i \in 1..Len(files) :
                        ~Before(ChromOrders(files)[i],
                                TupleKey(emitted[n])[1], TupleKey(emitted[m])[1])

\* the alignment key of a record
AlignmentKey(r) == <<r.CHROM, r.POS, r.REF, r.ALT>>

\* the alignment keys of a stream
KeysOf(recs) == {AlignmentKey(recs[k]) : k \in 1..Len(recs)}

\* the number of populated slots of a tuple
Populated(t) == Cardinality({s \in 1..Len(t) : t[s] # None})

\* the keys of a stream ascend strictly in the order of the walker
StrictlyAscending(recs) ==
    \A i \in 1..(Len(recs) - 1) :
        /\ AlignmentKey(recs[i]) # AlignmentKey(recs[i + 1])
        /\ KeyLe(AlignmentKey(recs[i]), AlignmentKey(recs[i + 1]))

\* the populated slots of the tuple just emitted are the buffered records
\* with the minimum buffered key; an absent slot belongs to a stream that is
\* exhausted or buffers another key
MinimumEmitted ==
    wpc = "running" =>
        LET t == emitted[Len(emitted)]
            buffered == {s \in 1..Len(nexts) : nexts[s] # None}
            keys == {AlignmentKey(nexts[s]) : s \in buffered}
            min == CHOOSE m \in keys : \A k \in keys : KeyLe(m, k)
        IN  \A s \in 1..Len(t) :
                IF t[s] # None
                THEN s \in buffered /\ t[s] = nexts[s] /\ AlignmentKey(t[s]) = min
                ELSE s \notin buffered \/ AlignmentKey(nexts[s]) # min

\* every tuple has one slot per stream and a populated slot, and streams
\* with pairwise disjoint keys give tuples with exactly one populated slot
SlotsOfTuples ==
    LET disjoint == \A i, j \in 1..Len(files) :
                        i # j => KeysOf(files[i].data) \cap KeysOf(files[j].data) = {}
    IN  \A n \in 1..Len(emitted) :
            /\ Len(emitted[n]) = Len(files)
            /\ Populated(emitted[n]) >= 1
            /\ disjoint => Populated(emitted[n]) = 1

\* the streams share all their keys
SharedKeys ==
    \A i, j \in 1..Len(files) : KeysOf(files[i].data) = KeysOf(files[j].data)

Upcoming(i) ==
    IF Remaining(files[i], cursor[i]) = <<>> THEN None
    ELSE Remaining(files[i], cursor[i])[1]

\* 1 when reader i has a record left to read, else 0
OneIfLeft(i) == IF Remaining(files[i], cursor[i]) = <<>> THEN 0 ELSE 1

\* C14: creating the walker reads nothing; the first pull reads one record
\* of every stream; every later pull reads exactly one record of each stream
\* whose buffered record was placed in the tuple emitted before, and leaves
\* the cursor and the buffered record of every other stream unchanged.
C14_AdvancesOnlyConsumed ==
    [][/\ wpc = "none" => cursor' = cursor
       /\ wpc = "created" =>
              \A i \in 1..Len(files) :
                  /\ cursor'[i] = cursor[i] + OneIfLeft(i)
                  /\ nexts'[i] = Upcoming(i)
       /\ wpc = "running" =>
              \A i \in 1..Len(files) :
                  IF emitted[Len(emitted)][i] # None
                  THEN /\ cursor'[i] = cursor[i] + OneIfLeft(i)
                       /\ nexts'[i] = Upcoming(i)
                  ELSE /\ cursor'[i] = cursor[i]
                       /\ nexts'[i] = nexts[i]]_vars

C14_Witness ==
    /\ wpc = "running"
    /\ Len(emitted) = 2
    /\ emitted[1][1] # None /\ emitted[1][2] = None
    /\ cursor[1] = HeaderLen(files[1]) + 2
    /\ cursor[2] = HeaderLen(files[2]) + 1
    /\ nexts[2] = files[2].data[1]

\* the number of records of the longest stream, from stream i on
RECURSIVE Longest(_, _)
Longest(fs, i) ==
    IF i > Len(fs) THEN 0
    ELSE LET rest == Longest(fs, i + 1)
         IN  IF Len(fs[i].data) >= rest THEN Len(fs[i].data) ELSE rest

\* the number of records of all streams, from stream i on
RECURSIVE Total(_, _)
Total(fs, i) == IF i > Len(fs) THEN 0 ELSE Len(fs[i].data) + Total(fs, i + 1)

\* C15: for any finite streams, sorted or not, a caller that keeps pulling
\* reaches the end of the walker; the walker ends only when every stream is
\* exhausted and nothing is buffered, goes on while a record is buffered, and
\* has then emitted at least as many tuples as the longest stream has
\* records and at most as many as there are records.
C15_Terminates ==
    /\ <>(wpc = "done")
    /\ [](wpc = "running" => \E s \in 1..Len(nexts) : nexts[s] # None)
    /\ [](wpc = "done" =>
            /\ \A i \in 1..Len(files) : Remaining(files[i], cursor[i]) = <<>>
            /\ \A s \in 1..Len(nexts) : nexts[s] = None
            /\ Longest(files, 1) <= Len(emitted)
            /\ Len(emitted) <= Total(files, 1))

C15_Witness ==
    /\ wpc = "done"
    /\ Len(files[1].data) = 1
    /\ Len(files[2].data) = 2
    /\ Len(emitted) = 3
    /\ ~StrictlyAscending(files[2].data)

(***************************************************************************)
(* Properties of extract_names                                             *)
(***************************************************************************)
\* the value of the first ##source line of a file, "" when it has none
RECURSIVE DeclaredSource(_)
DeclaredSource(meta) ==
    IF meta = <<>> THEN ""
    ELSE IF meta[1][1] = "source" THEN meta[1][2]
    ELSE DeclaredSource(Tail(meta))

\* C11: extract_names returns exactly one name per stream; entry i is the
\* declared source name of stream i when it is present and non-empty, and
\* otherwise "method_<i>" with i the 1-based position of the stream in the
\* input list.
C11_NamesByPosition ==
    names.called =>
        /\ Len(names.result) = Len(files)
        /\ \A i \in 1..Len(files) :
              names.result[i] =
                  IF DeclaredSource(files[i].meta) # ""
                  THEN DeclaredSource(files[i].meta)
                  ELSE "method_" \o ToString(i)

C11_Witness ==
    /\ names.called
    /\ Len(files) = 3
    /\ names.result = <<"method_1", "strelka", "method_3">>
    /\ DeclaredSource(files[1].meta) = ""
    /\ <<"source", "">> \in Range(files[3].meta)

(***************************************************************************)
(* Properties of main                                                      *)
(***************************************************************************)
\* the ways main ends once validation has not raised
MainEnded == {"exit", "TypeError", "NotAReader"}

\* C16: when the sort check is not skipped, main validates (are_sorted
\* reads every stream to its end), resets every stream and then walks, so
\* that the walker starts from the first record of every stream and emits
\* all records; when validation raises NotSortedException the walker is
\* never started and no tuple is emitted; when the sort check is skipped
\* neither are_sorted nor reset_vcf_files runs before the walk.
C16_ValidateResetWalk ==
    /\ (~skip /\ mpc \notin {"none", "start"}) => trace[1] = "are_sorted"
    /\ mpc = "NotSortedException" =>
          /\ trace = <<"are_sorted">>
          /\ wpc = "none"
          /\ emitted = <<>>
    /\ mpc = "are_sorted" =>
          \A i \in 1..Len(files) : Remaining(files[i], cursor[i]) = <<>>
    /\ (~skip /\ mpc = "create_vcf_walktogether") =>
          /\ trace = <<"are_sorted", "reset_vcf_files", "create_vcf_walktogether">>
          /\ \A i \in 1..Len(files) : cursor[i] = HeaderLen(files[i])
    /\ (~skip /\ mpc \in MainEnded) =>
          /\ SubSeq(trace, 1, 3) =
                 <<"are_sorted", "reset_vcf_files", "create_vcf_walktogether">>
          /\ \A i \in 1..Len(files) : Column(emitted, i) = files[i].data
    /\ skip =>
          /\ "are_sorted" \notin Range(trace)
          /\ "reset_vcf_files" \notin Range(trace)

====
